---- MODULE Spec2Model ----
(***************************************************************************)
(* A model of trafaret (src/trafaret/__init__.py): the validator contract  *)
(* with its converters, the DataError tree, the combinators Or, List,      *)
(* Dict/Key, Mapping and Forward, and the guard decorator.                 *)
(*                                                                         *)
(* Schema objects live in `heap`, addressed by node id, so that a Forward  *)
(* can be bound to a schema that contains it.  One API call is one action; *)
(* `op`, `self`, `arg` and `res` record the call just made and its outcome *)
(* (a returned value, a raised DataError, or another raised exception).    *)
(* `calls` holds, for each caller that runs Dict checks step by step next  *)
(* to the other, the dict it passed and the locals of its call.            *)
(*                                                                         *)
(* Python semantics assumed: the interpreters the file targets (2.x and    *)
(* 3.x before PEP 479), where `raise StopIteration` inside the generator   *)
(* Key.pop simply ends the generator.                                      *)
(***************************************************************************)
EXTENDS Integers, Sequences, FiniteSets, TLC

VARIABLES heap, op, self, arg, res, calls

vars == <<heap, op, self, arg, res, calls>>

(***************************************************************************)
(* Bounds of the model.                                                    *)
(***************************************************************************)
\* longest flat list handed to a check
MaxLen == 3
\* most children an Or is grown to
MaxOr == 3
\* most names the Dict's extras and ignore lists hold together
MaxExtras == 2
\* nested check calls the interpreter allows before it raises RecursionError
MaxDepth == 14
\* largest integer a decimal string of the model denotes
MaxInt == 9
\* most converters the validators of a schema hold together
MaxConv == 3
\* most entries of a dict handed to a Mapping
MaxItems == 3
\* most positional arguments of a call of a guarded function
MaxArgs == 2

(***************************************************************************)
(* Python values.  Each type has its own record shape.                     *)
(***************************************************************************)
PyNone == [none |-> TRUE]
PyInt(n) == [int |-> n]
PyStr(s) == [str |-> s]
PyList(q) == [list |-> q]
PyDict(f) == [dict |-> f]

\* a dict whose keys are any values, as the sequence of its items in iteration
\* order (the dicts handed to a Mapping and returned by it)
PyItems(q) == [items |-> q]
Item(k, v) == [k |-> k, v |-> v]

IsInt(v) == DOMAIN v = {"int"}
IsStr(v) == DOMAIN v = {"str"}
IsList(v) == DOMAIN v = {"list"}
IsDict(v) == DOMAIN v = {"dict"}
IsItems(v) == DOMAIN v = {"items"}

EmptyMap == <<>>

\* d[k] = v on a Python dict d
Put(d, k, v) == [x \in (DOMAIN d) \cup {k} |-> IF x = k THEN v ELSE d[x]]

\* d.pop(k) on a Python dict d that may lack k
Without(d, k) == [x \in (DOMAIN d) \ {k} |-> d[x]]

\* q[k] = v on a dict q kept as the sequence of its items: an old key keeps
\* its place
SetItem(q, k, v) ==
  IF \E i \in DOMAIN q : q[i].k = k
  THEN [i \in DOMAIN q |-> IF q[i].k = k THEN Item(k, v) ELSE q[i]]
  ELSE Append(q, Item(k, v))

(***************************************************************************)
(* DataError: a leaf carries a message, a branch a dict of DataErrors.     *)
(***************************************************************************)
Leaf(msg) == [leaf |-> msg]
Branch(d) == [branch |-> d]
IsLeaf(e) == DOMAIN e = {"leaf"}
IsBranch(e) == DOMAIN e = {"branch"}

(***************************************************************************)
(* Outcomes of a call: a returned value, a raised DataError, or any other  *)
(* raised exception.  `log` lists the check calls made, in call order,     *)
(* each with the node checked, the value handed to it and its nesting.     *)
(***************************************************************************)
Ok(v, log) == [st |-> "ok", val |-> v, log |-> log]
Fail(e, log) == [st |-> "error", err |-> e, log |-> log]
Exc(x, log) == [st |-> "raise", exc |-> x, log |-> log]

Entry(id, v, d) == [t |-> id, v |-> v, lvl |-> MaxDepth - d]

(***************************************************************************)
(* Schema nodes.                                                           *)
(***************************************************************************)
NoRef == "None"

\* no `converters` attribute on the instance yet
NoConverters == [set |-> FALSE, list |-> <<>>]

IntT == [kind |-> "Int", converters |-> NoConverters]
StringT == [kind |-> "String", allow_blank |-> FALSE, converters |-> NoConverters]
NullT == [kind |-> "Null", converters |-> NoConverters]
OrT(ts) == [kind |-> "Or", trafarets |-> ts, converters |-> NoConverters]
ListT(t, mn, mx) ==
  [kind |-> "List", trafaret |-> t, min_length |-> mn, max_length |-> mx,
   converters |-> NoConverters]
ForwardT == [kind |-> "Forward", trafaret |-> NoRef, converters |-> NoConverters]
MappingT(k, v) == [kind |-> "Mapping", key |-> k, value |-> v, converters |-> NoConverters]

Key(name, default, optional, to_name, t) ==
  [name |-> name, to_name |-> to_name, default |-> default,
   optional |-> optional, trafaret |-> t]

DictT(keys) ==
  [kind |-> "Dict", keys |-> keys, extras |-> <<>>, allow_any |-> FALSE,
   ignore |-> <<>>, ignore_any |-> FALSE, converters |-> NoConverters]

Range(q) == {q[i] : i \in DOMAIN q}

(***************************************************************************)
(* Trafaret.converter, Trafaret._convert.  The converters of the model are *)
(* the callables `lambda x: x * 2` ("double"), `str` ("str") and `ignore`  *)
(* ("ignore"); `x * 2` raises TypeError on None and on a dict.  A call of  *)
(* a converter is logged with the node it belongs to and the value it is   *)
(* handed.                                                                 *)
(***************************************************************************)
ConvEntry(id, c, v, d) == [t |-> id, c |-> c, v |-> v, lvl |-> MaxDepth - d + 1]

ConverterRaises(c, v) == c = "double" /\ ~(IsInt(v) \/ IsStr(v) \/ IsList(v))

ApplyConverter(c, v) ==
  CASE c = "ignore" -> PyNone
    [] c = "double" /\ IsInt(v) -> PyInt(2 * v.int)
    [] c = "double" /\ IsStr(v) -> PyStr(v.str \o v.str)
    [] c = "double" /\ IsList(v) -> PyList(v.list \o v.list)
    [] c = "str" /\ IsInt(v) -> PyStr(ToString(v.int))
    [] c = "str" /\ IsStr(v) -> v
    [] c = "str" /\ v = PyNone -> PyStr("None")

\* a pipeline that runs the converters last to first
RECURSIVE ConvertFromLast(_, _, _, _, _, _)
ConvertFromLast(cs, i, v, id, d, log) ==
  IF i > Len(cs) THEN Ok(v, log)
  ELSE LET c == cs[Len(cs) + 1 - i]
       IN IF ConverterRaises(c, v)
          THEN Exc("TypeError", Append(log, ConvEntry(id, c, v, d)))
          ELSE ConvertFromLast(cs, i + 1, ApplyConverter(c, v), id, d,
                               Append(log, ConvEntry(id, c, v, d)))

\* Trafaret._convert: the for loop from converter i on
RECURSIVE ConvertFrom(_, _, _, _, _, _)
ConvertFrom(cs, i, v, id, d, log) ==
  IF i > Len(cs) THEN Ok(v, log)
  ELSE IF ConverterRaises(cs[i], v)
  THEN Exc("TypeError", Append(log, ConvEntry(id, cs[i], v, d)))
  ELSE ConvertFrom(cs, i + 1, ApplyConverter(cs[i], v), id, d,
                   Append(log, ConvEntry(id, cs[i], v, d)))

\* Trafaret._convert; without a `converters` attribute the list is
\* [self.converter], which returns its argument
Convert(n, id, v, d) ==
  IF n.converters.set THEN ConvertFrom(n.converters.list, 1, v, id, d, <<>>) ELSE Ok(v, <<>>)

(***************************************************************************)
(* Leaf validators                                                         *)
(***************************************************************************)
\* int(s) for a str s: the decimal strings of the model convert, others raise
\* ValueError
IsDecimal(s) == \E i \in 0..MaxInt : ToString(i) = s
ParseInt(s) == CHOOSE i \in 0..MaxInt : ToString(i) = s

\* Float._check_val with Int._converter / Float._converter, for Int() built
\* without bounds (gte, lte, gt, lt all None)
IntCheckVal(v) ==
  IF IsInt(v) THEN Ok(v, <<>>)
  ELSE IF ~IsStr(v) THEN Fail(Leaf("value is not int"), <<>>)
  ELSE IF IsDecimal(v.str) THEN Ok(PyInt(ParseInt(v.str)), <<>>)
  ELSE Fail(Leaf("value can't be converted to int"), <<>>)

\* String._check_val with regex None
StringCheckVal(n, v) ==
  IF ~IsStr(v) THEN Fail(Leaf("value is not string"), <<>>)
  ELSE IF ~n.allow_blank /\ v.str = "" THEN Fail(Leaf("blank value is not allowed"), <<>>)
  ELSE Ok(v, <<>>)

\* Null._check, then check returns the value itself
NullCheck(v) ==
  IF v # PyNone THEN Fail(Leaf("value should be None"), <<>>) ELSE Ok(v, <<>>)

\* a get_name that forgets the renaming
SourceName(key) == key.name

(***************************************************************************)
(* Key.get_name                                                            *)
(***************************************************************************)
GetName(key) == IF key.to_name # PyNone THEN key.to_name.str ELSE key.name

\* the name Key.pop yields the 'is required' error under
RequiredName(key) == key.name

\* the value Dict._check_val stores for an allowed extra key
ExtraValue(data, key) == PyDict(data)

\* an enumeration that counts from 1
EnumerateFromOne(errors) == [i \in 1..Len(errors) |-> errors[i]]

\* dict(enumerate(errors))
Enumerate(errors) == [i \in 0..(Len(errors) - 1) |-> errors[i + 1]]

(***************************************************************************)
(* Trafaret.check and the _check_val of the combinators.  h is the heap,   *)
(* d the nesting depth still available.                                    *)
(***************************************************************************)
RECURSIVE CheckT(_, _, _, _)
RECURSIVE OrLoop(_, _, _, _, _, _, _)
RECURSIVE ListLoop(_, _, _, _, _, _, _, _)
RECURSIVE KeysLoop(_, _, _, _, _, _, _, _)
RECURSIVE MappingLoop(_, _, _, _, _, _, _, _)

\* an Or loop that keeps trying after a success and returns the last one
RECURSIVE OrLoopLastWins(_, _, _, _, _, _, _)
OrLoopLastWins(h, ts, i, v, d, errors, log) ==
  IF i > Len(ts)
  THEN IF Len(errors) > 0 /\ errors[Len(errors)].st = "ok"
       THEN Ok(errors[Len(errors)].val, log)
       ELSE Fail(Branch([k \in 0..(Len(errors) - 1) |-> errors[k + 1].err]), log)
  ELSE LET r == CheckT(h, ts[i], v, d - 1)
       IN CASE r.st = "ok" ->
                 OrLoopLastWins(h, ts, i + 1, v, d,
                                SelectSeq(errors, LAMBDA e : e.st = "error") \o <<r>>,
                                log \o r.log)
            [] r.st = "error" ->
                 OrLoopLastWins(h, ts, i + 1, v, d,
                                IF Len(errors) > 0 /\ errors[Len(errors)].st = "ok"
                                THEN errors ELSE Append(errors, r), log \o r.log)
            [] OTHER -> Exc(r.exc, log \o r.log)

\* Or._check_val: the for loop from child i on
OrLoop(h, ts, i, v, d, errors, log) ==
  IF i > Len(ts) THEN Fail(Branch(Enumerate(errors)), log)
  ELSE LET r == CheckT(h, ts[i], v, d - 1)
       IN CASE r.st = "ok" -> Ok(r.val, log \o r.log)
            [] r.st = "error" -> OrLoop(h, ts, i + 1, v, d, Append(errors, r.err), log \o r.log)
            [] OTHER -> Exc(r.exc, log \o r.log)

\* a List loop that raises at the first failing element
RECURSIVE ListLoopFailFast(_, _, _, _, _, _, _, _)
ListLoopFailFast(h, t, items, i, d, lst, errors, log) ==
  IF i > Len(items) THEN Ok(PyList(lst), log)
  ELSE LET r == CheckT(h, t, items[i], d - 1)
       IN CASE r.st = "ok" ->
                 ListLoopFailFast(h, t, items, i + 1, d, Append(lst, r.val), errors, log \o r.log)
            [] r.st = "error" -> Fail(Branch(Put(errors, i - 1, r.err)), log \o r.log)
            [] OTHER -> Exc(r.exc, log \o r.log)

\* List._check_val: the for loop from element i on
ListLoop(h, t, items, i, d, lst, errors, log) ==
  IF i > Len(items)
  THEN IF DOMAIN errors # {} THEN Fail(Branch(errors), log) ELSE Ok(PyList(lst), log)
  ELSE LET r == CheckT(h, t, items[i], d - 1)
       IN CASE r.st = "ok" ->
                 ListLoop(h, t, items, i + 1, d, Append(lst, r.val), errors, log \o r.log)
            [] r.st = "error" ->
                 ListLoop(h, t, items, i + 1, d, lst, Put(errors, i - 1, r.err), log \o r.log)
            [] OTHER -> Exc(r.exc, log \o r.log)

ListCheckVal(h, n, v, d) ==
  IF ~IsList(v) THEN Fail(Leaf("value is not list"), <<>>)
  ELSE IF Len(v.list) < n.min_length
  THEN Fail(Leaf("list length is less than " \o ToString(n.min_length)), <<>>)
  ELSE IF n.max_length # PyNone /\ Len(v.list) > n.max_length.int
  THEN Fail(Leaf("list length is greater than " \o ToString(n.max_length.int)), <<>>)
  ELSE ListLoop(h, n.trafaret, v.list, 1, d, <<>>, EmptyMap, <<>>)

\* Dict._check_val: the loop over self.keys from key i on, with Key.pop inlined.
\* Returns the locals data, collect, errors once the loop is over.
KeysLoop(h, keys, i, data, collect, errors, d, log) ==
  IF i > Len(keys)
  THEN [st |-> "ok", data |-> data, collect |-> collect, errors |-> errors, log |-> log]
  ELSE LET key == keys[i]
       IN IF key.name \in DOMAIN data \/ key.default # PyNone
          THEN LET a == IF key.name \in DOMAIN data THEN data[key.name] ELSE key.default
                   r == CheckT(h, key.trafaret, a, d - 1)
                   rest == Without(data, key.name)
               IN CASE r.st = "ok" ->
                         KeysLoop(h, keys, i + 1, rest, Put(collect, GetName(key), r.val),
                                  errors, d, log \o r.log)
                    [] r.st = "error" ->
                         KeysLoop(h, keys, i + 1, rest, collect,
                                  Put(errors, GetName(key), r.err), d, log \o r.log)
                    [] OTHER -> Exc(r.exc, log \o r.log)
          ELSE IF ~key.optional
          THEN KeysLoop(h, keys, i + 1, data, collect,
                        Put(errors, RequiredName(key), Leaf("is required")), d, log)
          ELSE KeysLoop(h, keys, i + 1, data, collect, errors, d, log)

\* an extras loop that is skipped once a declared key has failed
ExtrasPassFailFast(n, data, collect, errors) ==
  IF n.ignore_any \/ DOMAIN errors # {} THEN [collect |-> collect, errors |-> errors]
  ELSE LET seen == {k \in DOMAIN data : k \notin Range(n.ignore)}
           bad == {k \in seen : ~n.allow_any /\ k \notin Range(n.extras)}
           kept == seen \ bad
       IN [collect |-> [k \in (DOMAIN collect) \cup kept |->
                          IF k \in kept THEN ExtraValue(data, k) ELSE collect[k]],
           errors |-> [k \in (DOMAIN errors) \cup bad |->
                          IF k \in bad THEN Leaf(k \o " is not allowed key") ELSE errors[k]]]

\* an extras loop that asks the allow list before the ignore list
ExtrasPassAllowFirst(n, data, collect, errors) ==
  LET kept == {k \in DOMAIN data : n.allow_any \/ k \in Range(n.extras)}
      bad == {k \in (DOMAIN data) \ kept : ~n.ignore_any /\ k \notin Range(n.ignore)}
  IN [collect |-> [k \in (DOMAIN collect) \cup kept |->
                     IF k \in kept THEN ExtraValue(data, k) ELSE collect[k]],
      errors |-> [k \in (DOMAIN errors) \cup bad |->
                     IF k \in bad THEN Leaf(k \o " is not allowed key") ELSE errors[k]]]

\* Dict._check_val: the loop over the entries left in data
ExtrasPass(n, data, collect, errors) ==
  IF n.ignore_any THEN [collect |-> collect, errors |-> errors]
  ELSE LET seen == {k \in DOMAIN data : k \notin Range(n.ignore)}
           bad == {k \in seen : ~n.allow_any /\ k \notin Range(n.extras)}
           kept == seen \ bad
       IN [collect |-> [k \in (DOMAIN collect) \cup kept |->
                          IF k \in kept THEN ExtraValue(data, k) ELSE collect[k]],
           errors |-> [k \in (DOMAIN errors) \cup bad |->
                          IF k \in bad THEN Leaf(k \o " is not allowed key") ELSE errors[k]]]

DictCheckVal(h, n, v, d) ==
  IF ~IsDict(v) THEN Fail(Leaf("value is not dict"), <<>>)
  ELSE LET p == KeysLoop(h, n.keys, 1, v.dict, EmptyMap, EmptyMap, d, <<>>)
       IN IF p.st # "ok" THEN p
          ELSE LET q == ExtrasPass(n, p.data, p.collect, p.errors)
               IN IF DOMAIN q.errors # {} THEN Fail(Branch(q.errors), p.log)
                  ELSE Ok(PyDict(q.collect), p.log)

\* the pair_errors of one entry of a Mapping
PairErrors(rk, rv) ==
  [x \in (IF rk.st = "error" THEN {"key"} ELSE {}) \cup
         (IF rv.st = "error" THEN {"value"} ELSE {}) |->
     IF x = "key" THEN rk.err ELSE rv.err]

\* a Mapping loop that does not look at the value of an entry whose key failed
RECURSIVE MappingLoopSkipsValue(_, _, _, _, _, _, _, _)
MappingLoopSkipsValue(h, n, items, i, d, checked, errors, log) ==
  IF i > Len(items)
  THEN IF DOMAIN errors # {} THEN Fail(Branch(errors), log) ELSE Ok(PyItems(checked), log)
  ELSE LET rk == CheckT(h, n.key, items[i].k, d - 1)
           rv == CheckT(h, n.value, items[i].v, d - 1)
       IN CASE rk.st = "raise" -> Exc(rk.exc, log \o rk.log)
            [] rk.st = "error" ->
                 MappingLoopSkipsValue(h, n, items, i + 1, d, checked,
                                       Put(errors, items[i].k, Branch(PairErrors(rk, Ok(PyNone, <<>>)))),
                                       log \o rk.log)
            [] rv.st = "raise" -> Exc(rv.exc, log \o rk.log \o rv.log)
            [] rv.st = "error" ->
                 MappingLoopSkipsValue(h, n, items, i + 1, d, checked,
                                       Put(errors, items[i].k, Branch(PairErrors(rk, rv))),
                                       log \o rk.log \o rv.log)
            [] OTHER ->
                 MappingLoopSkipsValue(h, n, items, i + 1, d,
                                       SetItem(checked, rk.val, rv.val), errors,
                                       log \o rk.log \o rv.log)

\* Mapping._check_val: the for loop from entry i on
MappingLoop(h, n, items, i, d, checked, errors, log) ==
  IF i > Len(items)
  THEN IF DOMAIN errors # {} THEN Fail(Branch(errors), log) ELSE Ok(PyItems(checked), log)
  ELSE LET rk == CheckT(h, n.key, items[i].k, d - 1)
           rv == CheckT(h, n.value, items[i].v, d - 1)
       IN CASE rk.st = "raise" -> Exc(rk.exc, log \o rk.log)
            [] rv.st = "raise" -> Exc(rv.exc, log \o rk.log \o rv.log)
            [] rk.st = "error" \/ rv.st = "error" ->
                 MappingLoop(h, n, items, i + 1, d, checked,
                             Put(errors, items[i].k, Branch(PairErrors(rk, rv))),
                             log \o rk.log \o rv.log)
            [] OTHER ->
                 MappingLoop(h, n, items, i + 1, d, SetItem(checked, rk.val, rv.val), errors,
                             log \o rk.log \o rv.log)

\* Mapping._check_val: mapping.items() of a value that is no dict raises
\* AttributeError
MappingCheckVal(h, n, v, d) ==
  IF ~IsItems(v) THEN Exc("AttributeError", <<>>)
  ELSE MappingLoop(h, n, v.items, 1, d, <<>>, EmptyMap, <<>>)

\* a Forward that hands the value to its own check
ForwardCheckSelf(h, id, v, d) ==
  IF h[id].trafaret = NoRef THEN Exc("AttributeError", <<>>)
  ELSE CheckT(h, id, v, d - 1)

\* Forward._check_val: self.trafaret.check(value); None has no check
ForwardCheckVal(h, id, v, d) ==
  IF h[id].trafaret = NoRef THEN Exc("AttributeError", <<>>)
  ELSE CheckT(h, h[id].trafaret, v, d - 1)

\* Trafaret.check
CheckT(h, id, v, d) ==
  IF d = 0 THEN Exc("RecursionError", <<>>)
  ELSE LET n == h[id]
           r == CASE n.kind = "Int" -> IntCheckVal(v)
                  [] n.kind = "String" -> StringCheckVal(n, v)
                  [] n.kind = "Null" -> NullCheck(v)
                  [] n.kind = "Or" -> OrLoop(h, n.trafarets, 1, v, d, <<>>, <<>>)
                  [] n.kind = "List" -> ListCheckVal(h, n, v, d)
                  [] n.kind = "Dict" -> DictCheckVal(h, n, v, d)
                  [] n.kind = "Forward" -> ForwardCheckVal(h, id, v, d)
                  [] n.kind = "Mapping" -> MappingCheckVal(h, n, v, d)
           log == <<Entry(id, v, d)>> \o r.log
       IN CASE r.st = "ok" ->
                 LET c == Convert(n, id, r.val, d)
                 IN IF c.st = "ok" THEN Ok(c.val, log \o c.log) ELSE Exc(c.exc, log \o c.log)
            [] r.st = "error" -> Fail(r.err, log)
            [] OTHER -> Exc(r.exc, log)

(***************************************************************************)
(* Trafaret._trafaret on an argument that is a trafaret instance (a node   *)
(* of the heap) or no trafaret at all (NotATrafaret, such as the number 5, *)
(* on which issubclass raises TypeError)                                   *)
(***************************************************************************)
NotATrafaret == "5"
PyRef(id) == [ref |-> id]


(***************************************************************************)
(* The schema objects.  Every specification below starts from these and    *)
(* varies the ones its operations are about.                               *)
(***************************************************************************)
NodeIds == {"int", "str", "null", "or", "list", "dict", "fwd", "fwd2"}

BaseHeap ==
  [id \in NodeIds |->
     CASE id = "int" -> IntT
       [] id = "str" -> StringT
       [] id = "null" -> NullT
       [] id = "or" -> OrT(<<>>)
       [] id = "list" -> ListT("int", 0, PyNone)
       [] id = "dict" -> DictT(<<>>)
       [] OTHER -> ForwardT]

IsTrafaret(t) == t \in NodeIds

\* the callers that run checks of one Dict next to each other
Callers == {"p", "q"}

\* no outcome yet
NoOutcome == [st |-> "none"]

\* a caller outside any call: pc is where its call stands, value the dict it
\* passed as it is now, data, alias, collect, errors and i the locals of
\* Dict._check_val (alias: `data` is the caller's dict itself, not a copy).
\* Kept for the properties: passed, what the dict held when it was passed;
\* last, the outcome of the last check of this dict on the schema as it is;
\* first, the outcome of the check before that one.
IdleCall ==
  [pc |-> "idle", value |-> PyNone, passed |-> PyNone, data |-> EmptyMap, alias |-> FALSE,
   collect |-> EmptyMap, errors |-> EmptyMap, i |-> 0, last |-> NoOutcome, first |-> NoOutcome]

\* the state before any call
NoCall ==
  /\ op = "init" /\ self = NoRef /\ arg = PyNone /\ res = Ok(PyNone, <<>>)
  /\ calls = [p \in Callers |-> IdleCall]

Atoms == {PyInt(1), PyStr("x"), PyStr("7")}

\* the lists of at most n elements drawn from S
ListsOf(S, n) == UNION {[1..k -> S] : k \in 0..n}

FlatLists == {PyList(q) : q \in ListsOf(Atoms, MaxLen)}

(***************************************************************************)
(* trafaret.check(value), for any caller                                   *)
(***************************************************************************)
Check(id, v) ==
  /\ op' = "check"
  /\ self' = id
  /\ arg' = v
  /\ res' = CheckT(heap, id, v, MaxDepth)
  /\ UNCHANGED <<heap, calls>>

(***************************************************************************)
(* List: List(trafaret, min_length, max_length) checked on lists.          *)
(***************************************************************************)
ListInputs == FlatLists \cup {PyInt(1)}

InitList ==
  /\ \E t \in {"int", "str"}, mn \in 0..1, mx \in {PyNone, PyInt(MaxLen - 1)} :
        heap = [BaseHeap EXCEPT !["list"] = ListT(t, mn, mx)]
  /\ NoCall

NextList == \E v \in ListInputs : Check("list", v)

SpecList == InitList /\ [][NextList]_vars

\* the check calls made directly by the call that was checked
DirectCalls(log) == SelectSeq(log, LAMBDA e : e.lvl = 1)

\* the values handed to those calls, in call order
DirectValues(log) == [i \in 1..Len(DirectCalls(log)) |-> DirectCalls(log)[i].v]

\* the length of the list v is within the bounds of the List n
ListInBounds(n, v) ==
  /\ IsList(v)
  /\ Len(v.list) >= n.min_length
  /\ n.max_length = PyNone \/ Len(v.list) <= n.max_length.int

\* C4: List.check on a list whose length is within the bounds hands every
\* element to the child, in order, whatever fails.  If some element fails, the
\* call raises a branch whose keys are exactly the 0-based indices of the
\* failing elements, each holding that element's error, and returns no list;
\* if none fails it returns the validated elements in input order.
C4_ListReportsEveryFailure ==
  (op = "check" /\ self = "list" /\ ListInBounds(heap["list"], arg)) =>
    LET items == arg.list
        r(i) == CheckT(heap, heap["list"].trafaret, items[i], MaxDepth - 1)
        failing == {i - 1 : i \in {j \in 1..Len(items) : r(j).st = "error"}}
    IN /\ DirectValues(res.log) = items
       /\ IF failing # {}
          THEN /\ res.st = "error"
               /\ IsBranch(res.err)
               /\ DOMAIN res.err.branch = failing
               /\ \A i \in failing : res.err.branch[i] = r(i + 1).err
          ELSE /\ res.st = "ok"
               /\ res.val = PyList([i \in 1..Len(items) |-> r(i).val])

\* a list whose first and last elements fail and whose middle one passes
C4_Witness ==
  /\ op = "check" /\ self = "list" /\ ListInBounds(heap["list"], arg)
  /\ Len(arg.list) = 3
  /\ res.st = "error" /\ IsBranch(res.err)
  /\ DOMAIN res.err.branch = {0, 2}

(***************************************************************************)
(* Or: an Or built from zero or one child, grown with `<<` and `|`.         *)
(***************************************************************************)
\* a list.append that puts the new child first
Prepend(q, x) == <<x>> \o q

\* list.append
ListAppend(q, x) == Append(q, x)

\* Or.__lshift__
OrLshift(o, t) ==
  /\ Len(heap[o].trafarets) < MaxOr
  /\ op' = "lshift" /\ self' = o /\ arg' = t
  /\ IF IsTrafaret(t)
     THEN /\ heap' = [heap EXCEPT ![o].trafarets = ListAppend(@, t)]
          /\ res' = Ok(PyRef(o), <<>>)
     ELSE /\ res' = Exc("TypeError", <<>>)
          /\ UNCHANGED heap
  /\ UNCHANGED calls

\* Or.__or__: self << trafaret, return self
OrOr(o, t) ==
  /\ Len(heap[o].trafarets) < MaxOr
  /\ op' = "or" /\ self' = o /\ arg' = t
  /\ IF IsTrafaret(t)
     THEN /\ heap' = [heap EXCEPT ![o].trafarets = ListAppend(@, t)]
          /\ res' = Ok(PyRef(o), <<>>)
     ELSE /\ res' = Exc("TypeError", <<>>)
          /\ UNCHANGED heap
  /\ UNCHANGED calls

OrChildren == {"int", "str", "null", "list"}

OrInputs == Atoms \cup {PyNone, PyList(<<>>), PyList(<<PyStr("x")>>)}

InitOr ==
  /\ \E ts \in ListsOf(OrChildren, 1) : heap = [BaseHeap EXCEPT !["or"] = OrT(ts)]
  /\ NoCall

NextOr ==
  \/ \E t \in OrChildren \cup {NotATrafaret} : OrLshift("or", t)
  \/ \E t \in OrChildren \cup {NotATrafaret} : OrOr("or", t)
  \/ \E v \in OrInputs : Check("or", v)

SpecOr == InitOr /\ [][NextOr]_vars

\* the outcome of child i of the Or, checked on its own on the last argument
OrChild(i) == CheckT(heap, heap["or"].trafarets[i], arg, MaxDepth - 1)

\* the children of the Or that accept the last argument
OrAccepting == {i \in 1..Len(heap["or"].trafarets) : OrChild(i).st = "ok"}

\* the nodes the last check called directly, in call order
DirectNodes(log) == [i \in 1..Len(DirectCalls(log)) |-> DirectCalls(log)[i].t]

\* C5: when some child of an Or accepts the value, Or.check returns what the
\* lowest-index accepting child k returns, and the checks it made are those
\* of children 1..k, in declaration order, each on the value itself: no child
\* declared after k is evaluated.
C5_OrFirstSuccessWins ==
  (op = "check" /\ self = "or" /\ OrAccepting # {}) =>
    LET k == CHOOSE i \in OrAccepting : \A j \in OrAccepting : i <= j
    IN /\ res.st = "ok"
       /\ res.val = OrChild(k).val
       /\ DirectNodes(res.log) = SubSeq(heap["or"].trafarets, 1, k)
       /\ \A i \in 1..k : DirectCalls(res.log)[i].v = arg

\* an Or of three whose first child rejects and whose second and third both
\* accept, with different results
C5_Witness ==
  /\ op = "check" /\ self = "or" /\ res.st = "ok"
  /\ Len(heap["or"].trafarets) = 3
  /\ OrAccepting = {2, 3}
  /\ OrChild(2).val # OrChild(3).val

\* what an all-rejecting Or raises
OrAllRejected ==
  (op = "check" /\ self = "or" /\ OrAccepting = {}) =>
    LET n == Len(heap["or"].trafarets)
    IN /\ res.st = "error"
       /\ IsBranch(res.err)
       /\ DOMAIN res.err.branch = 0..(n - 1)
       /\ \A i \in 0..(n - 1) : res.err.branch[i] = OrChild(i + 1).err

\* what `<<` and `|` do to the declaration order
OrAppendsLast ==
  (op' \in {"lshift", "or"} /\ res'.st = "ok") =>
    heap'["or"].trafarets = Append(heap["or"].trafarets, arg')

\* C6: when every one of the n children of an Or rejects the value, Or.check
\* raises a branch whose keys are exactly 0..n-1 and whose entry i is the
\* error of the i-th declared child; a child added with `<<` or `|` is
\* declared last.
C6_OrCollectsEveryBranch == []OrAllRejected /\ [][OrAppendsLast]_vars

\* an Or grown to three children after construction, all of which reject
C6_Witness ==
  /\ op = "check" /\ self = "or" /\ OrAccepting = {}
  /\ Len(heap["or"].trafarets) = 3
  /\ res.st = "error" /\ DOMAIN res.err.branch = {0, 1, 2}

\* no branch of the error tree e is without entries
RECURSIVE NoEmptyBranch(_)
NoEmptyBranch(e) ==
  IsLeaf(e) \/ (DOMAIN e.branch # {} /\ \A k \in DOMAIN e.branch : NoEmptyBranch(e.branch[k]))

\* C15: every branch of every error tree a check raises, the tree of an Or
\* built without children included, has at least one entry.
C15_BranchNeverEmpty == (op = "check" /\ res.st = "error") => NoEmptyBranch(res.err)

(***************************************************************************)
(* Dict: a Dict of one or two Keys, its extra-key policy set with          *)
(* allow_extra and ignore_extra, checked on dicts.                         *)
(***************************************************************************)
\* Dict.allow_extra
AllowExtra(o, names) ==
  /\ Len(heap[o].extras) + Len(heap[o].ignore)
       + Len(SelectSeq(names, LAMBDA n : n # "*")) <= MaxExtras
  /\ op' = "allow_extra" /\ self' = o /\ arg' = names
  /\ heap' = [heap EXCEPT ![o].extras = @ \o SelectSeq(names, LAMBDA n : n # "*"),
                          ![o].allow_any = @ \/ "*" \in Range(names)]
  /\ res' = Ok(PyRef(o), <<>>)
  /\ UNCHANGED calls

\* Dict.ignore_extra
IgnoreExtra(o, names) ==
  /\ Len(heap[o].extras) + Len(heap[o].ignore)
       + Len(SelectSeq(names, LAMBDA n : n # "*")) <= MaxExtras
  /\ op' = "ignore_extra" /\ self' = o /\ arg' = names
  /\ heap' = [heap EXCEPT ![o].ignore = @ \o SelectSeq(names, LAMBDA n : n # "*"),
                          ![o].ignore_any = @ \/ "*" \in Range(names)]
  /\ res' = Ok(PyRef(o), <<>>)
  /\ UNCHANGED calls

\* the first declared key: Key("a") required, optional or with a default, as it
\* is or renamed to "c", validated by Int
FirstKeys ==
  {Key("a", PyNone, opt, to, "int") : opt \in BOOLEAN, to \in {PyNone, PyStr("c")}} \cup
  {Key("a", dflt, FALSE, to, "int") :
     dflt \in {PyStr("7"), PyStr("x")}, to \in {PyNone, PyStr("c")}}

\* the second declared key, if any: Key("b") required, or optional and renamed
\* to "c", validated by String
SecondKeys ==
  {Key("b", PyNone, FALSE, PyNone, "str"), Key("b", PyNone, TRUE, PyStr("c"), "str")}

DictSchemas ==
  {DictT(<<k>>) : k \in FirstKeys} \cup
  {DictT(<<k1, k2>>) : k1 \in FirstKeys, k2 \in SecondKeys}

\* the dicts with "a" absent, 1 or "x" and "b" absent or "x"
DictValues ==
  {PyDict(f) : f \in UNION {[D -> {PyInt(1), PyStr("x")}] : D \in SUBSET {"a"}}} \cup
  {PyDict(Put(f, "b", PyStr("x"))) :
     f \in UNION {[D -> {PyInt(1), PyStr("x")}] : D \in SUBSET {"a"}}}

\* those dicts, the same with an entry "c": 1, and a value that is no dict
DictInputs ==
  DictValues \cup {PyDict(Put(v.dict, "c", PyInt(1))) : v \in DictValues} \cup {PyList(<<>>)}

PolicyNames == {"b", "c", "*"}

\* the argument lists of allow_extra and ignore_extra
PolicyArgs == {<<n>> : n \in PolicyNames} \cup {<<"c", "*">>}

InitDict ==
  /\ \E n \in DictSchemas : heap = [BaseHeap EXCEPT !["dict"] = n]
  /\ NoCall

NextDict ==
  \/ \E names \in PolicyArgs : AllowExtra("dict", names)
  \/ \E names \in PolicyArgs : IgnoreExtra("dict", names)
  \/ \E v \in DictInputs : Check("dict", v)

SpecDict == InitDict /\ [][NextDict]_vars

\* the Dict under check, its keys, and its latest call being a check of a dict
TheDict == heap["dict"]
TheKeys == TheDict.keys
DictChecked == op = "check" /\ self = "dict" /\ IsDict(arg)

\* the name a key was renamed to with `>>`, its source name if it was not
TargetOf(key) == IF key.to_name = PyNone THEN key.name ELSE key.to_name.str

\* the input entries no declared key consumes
Unconsumed == (DOMAIN arg.dict) \ {TheKeys[i].name : i \in DOMAIN TheKeys}

Ignored(name) == TheDict.ignore_any \/ name \in Range(TheDict.ignore)
Allowed(name) == TheDict.allow_any \/ name \in Range(TheDict.extras)

\* key i finds a value to validate: its source name is in the input, or it has a
\* default
Supplied(i) == TheKeys[i].name \in DOMAIN arg.dict \/ TheKeys[i].default # PyNone

\* key i is absent from the input, has no default and is not optional
Missing(i) == ~Supplied(i) /\ ~TheKeys[i].optional

\* what the child of key i says of the value key i finds
KeyChild(i) ==
  CheckT(heap, TheKeys[i].trafaret,
         IF TheKeys[i].name \in DOMAIN arg.dict
         THEN arg.dict[TheKeys[i].name] ELSE TheKeys[i].default,
         MaxDepth - 1)

\* C1: an input entry that no declared Key consumes, whose name is allowed and
\* not ignored, is in the successful output under its name with the value it
\* had in the input.
C1_ExtraCopiedUnchanged ==
  (DictChecked /\ res.st = "ok") =>
    \A name \in Unconsumed :
      (Allowed(name) /\ ~Ignored(name)) =>
        /\ name \in DOMAIN res.val.dict
        /\ res.val.dict[name] = arg.dict[name]

\* C2: a key that is not optional and has no default, renamed or not, whose
\* source name the input lacks, makes the check raise a branch that holds the
\* leaf 'is required' under the key's target name.
C2_RequiredUnderTargetName ==
  DictChecked =>
    \A i \in DOMAIN TheKeys :
      Missing(i) =>
        /\ res.st = "error"
        /\ IsBranch(res.err)
        /\ TargetOf(TheKeys[i]) \in DOMAIN res.err.branch
        /\ res.err.branch[TargetOf(TheKeys[i])] = Leaf("is required")

\* key j, for this input, writes a result under the name t: a validated value
\* or the child's error under its target name, 'is required' under its source
\* or its target name
Writes(j, t) ==
  \/ Supplied(j) /\ TargetOf(TheKeys[j]) = t
  \/ Missing(j) /\ t \in {TheKeys[j].name, TargetOf(TheKeys[j])}

\* the extras loop writes a result under the name t
ExtraWrites(t) == t \in Unconsumed /\ ~Ignored(t)

\* key i has a default, and the input lacks its source name
Defaulted(i) == TheKeys[i].default # PyNone /\ TheKeys[i].name \notin DOMAIN arg.dict

\* what C3 says of key i: the validated default under the target name, nothing
\* under the source name
DefaultUnderTarget(i) ==
  LET s == TheKeys[i].name
      t == TargetOf(TheKeys[i])
      r == CheckT(heap, TheKeys[i].trafaret, TheKeys[i].default, MaxDepth - 1)
  IN /\ (r.st = "ok" /\ res.st = "ok") =>
          t \in DOMAIN res.val.dict /\ res.val.dict[t] = r.val
     /\ r.st = "error" =>
          /\ res.st = "error" /\ IsBranch(res.err)
          /\ t \in DOMAIN res.err.branch /\ res.err.branch[t] = r.err
     /\ (s # t /\ ~\E j \in DOMAIN TheKeys : j # i /\ Writes(j, s)) =>
          /\ res.st = "ok" => s \notin DOMAIN res.val.dict
          /\ res.st = "error" => s \notin DOMAIN res.err.branch

\* C3 as claimed: for a key with source name s, target name t and default d,
\* a check of an input that lacks s puts the child's verdict on d under t,
\* never under s.
C3_DefaultUnderTargetName ==
  DictChecked => \A i \in DOMAIN TheKeys : Defaulted(i) => DefaultUnderTarget(i)

\* C3 as amended: the same, unless a key declared later or an unconsumed input
\* entry that is not ignored writes under the same name t.
C3_DefaultUnderTargetNameUnlessOverwritten ==
  DictChecked =>
    \A i \in DOMAIN TheKeys :
      (/\ Defaulted(i)
       /\ ~\E j \in DOMAIN TheKeys : j > i /\ Writes(j, TargetOf(TheKeys[i]))
       /\ ~ExtraWrites(TargetOf(TheKeys[i])))
      => DefaultUnderTarget(i)

\* a key "a" renamed to "c" whose default "7" the child turns into 7, on an
\* input without "a": the output holds 7 under "c" and nothing under "a"
C3_Witness ==
  /\ DictChecked /\ res.st = "ok"
  /\ Defaulted(1) /\ TargetOf(TheKeys[1]) = "c" /\ TheKeys[1].default = PyStr("7")
  /\ ~\E j \in DOMAIN TheKeys : j > 1 /\ Writes(j, "c")
  /\ ~ExtraWrites("c")
  /\ res.val.dict["c"] = PyInt(7)
  /\ "a" \notin DOMAIN res.val.dict

\* the declared keys whose value the child rejects, or that are missing
FailingKeys == {i \in DOMAIN TheKeys : Missing(i) \/ (Supplied(i) /\ KeyChild(i).st = "error")}

\* the unconsumed entries the policy neither ignores nor allows
DisallowedExtras == {name \in Unconsumed : ~Ignored(name) /\ ~Allowed(name)}

\* the children of the supplied keys, in declaration order
RECURSIVE SuppliedChildren(_)
SuppliedChildren(i) ==
  IF i > Len(TheKeys) THEN <<>>
  ELSE (IF Supplied(i) THEN <<TheKeys[i].trafaret>> ELSE <<>>) \o SuppliedChildren(i + 1)

\* C7: Dict.check validates every declared key that finds a value, in
\* declaration order, whatever fails; it raises exactly when a declared key
\* failed or an extra key is disallowed; the branch then has an entry for every
\* failing key (under its target name; for a missing key under its source or
\* its target name) and for every disallowed extra (under its name), and every
\* entry of the branch belongs to one of those.
C7_DictReportsEveryFailure ==
  DictChecked =>
    /\ DirectNodes(res.log) = SuppliedChildren(1)
    /\ res.st = "error" <=> (FailingKeys # {} \/ DisallowedExtras # {})
    /\ res.st = "error" =>
         /\ IsBranch(res.err)
         /\ \A i \in FailingKeys :
              IF Supplied(i)
              THEN TargetOf(TheKeys[i]) \in DOMAIN res.err.branch
              ELSE \/ TargetOf(TheKeys[i]) \in DOMAIN res.err.branch
                   \/ TheKeys[i].name \in DOMAIN res.err.branch
         /\ \A name \in DisallowedExtras :
              /\ name \in DOMAIN res.err.branch
              /\ res.err.branch[name] = Leaf(name \o " is not allowed key")
         /\ DOMAIN res.err.branch \subseteq
              {TargetOf(TheKeys[i]) : i \in FailingKeys} \cup
              {TheKeys[i].name : i \in {k \in FailingKeys : Missing(k)}} \cup
              DisallowedExtras

\* two declared keys fail, one by its value and one by its absence, a third
\* entry is a disallowed extra, and the branch has all three
C7_Witness ==
  /\ DictChecked /\ res.st = "error"
  /\ Len(TheKeys) = 2 /\ FailingKeys = {1, 2}
  /\ Supplied(1) /\ Missing(2)
  /\ DisallowedExtras = {"c"}
  /\ DOMAIN res.err.branch = {"a", "b", "c"}

\* the locals of Dict._check_val after its loop over the declared keys
AfterKeys == KeysLoop(heap, TheKeys, 1, arg.dict, EmptyMap, EmptyMap, MaxDepth, <<>>)

\* the extras loop left the output and the errors under this name as the loop
\* over the declared keys left them
LeftAlone(name, what) ==
  /\ (what = "output" /\ res.st = "ok") =>
       IF name \in DOMAIN AfterKeys.collect
       THEN name \in DOMAIN res.val.dict /\ res.val.dict[name] = AfterKeys.collect[name]
       ELSE name \notin DOMAIN res.val.dict
  /\ (what = "errors" /\ res.st = "error") =>
       IF name \in DOMAIN AfterKeys.errors
       THEN name \in DOMAIN res.err.branch /\ res.err.branch[name] = AfterKeys.errors[name]
       ELSE name \notin DOMAIN res.err.branch

\* the policy for one unconsumed entry: ignore first, then allow, else reject
ExtraPolicyOrder ==
  DictChecked =>
    \A name \in Unconsumed :
      IF Ignored(name)
      THEN LeftAlone(name, "output") /\ LeftAlone(name, "errors")
      ELSE IF Allowed(name)
      THEN /\ res.st = "ok" => name \in DOMAIN res.val.dict
           /\ LeftAlone(name, "errors")
      ELSE /\ res.st = "error" /\ IsBranch(res.err)
           /\ name \in DOMAIN res.err.branch
           /\ res.err.branch[name] = Leaf(name \o " is not allowed key")

\* allow_extra and ignore_extra add to the policy and take nothing away
PolicyAccumulates ==
  LET old == heap["dict"]
      new == heap'["dict"]
      named == {arg'[i] : i \in DOMAIN arg'} \ {"*"}
  IN /\ op' = "allow_extra" =>
          /\ Range(new.extras) = Range(old.extras) \cup named
          /\ new.allow_any = (old.allow_any \/ "*" \in Range(arg'))
          /\ new.ignore = old.ignore /\ new.ignore_any = old.ignore_any
     /\ op' = "ignore_extra" =>
          /\ Range(new.ignore) = Range(old.ignore) \cup named
          /\ new.ignore_any = (old.ignore_any \/ "*" \in Range(arg'))
          /\ new.extras = old.extras /\ new.allow_any = old.allow_any

\* C8: an input entry that no declared Key consumes is dropped silently when
\* its name is ignored (by name or by ignore-any), even if it is also allowed;
\* otherwise it is in the output when its name is allowed (by name or by
\* allow-any); otherwise the check raises a branch with the leaf
\* '<name> is not allowed key' under that name.  The names given to repeated
\* allow_extra and ignore_extra calls accumulate.
C8_ExtraKeyPolicy == []ExtraPolicyOrder /\ [][PolicyAccumulates]_vars

\* an entry that is both allowed and ignored is dropped, under a policy whose
\* two allowed names came from separate calls
C8_Witness ==
  /\ DictChecked /\ res.st = "ok"
  /\ TheDict.extras = <<"c", "b">>
  /\ TheDict.ignore_any
  /\ "c" \in Unconsumed /\ "c" \notin DOMAIN res.val.dict

(***************************************************************************)
(* Forward: two Forwards bound with provide and `<<` to each other, to an  *)
(* Or, to List(fwd) or to Dict(a=String, b=List(fwd)), then checked.       *)
(***************************************************************************)
\* a provide that binds whatever is bound already
ProvideOverwrites(f, t) ==
  /\ op' = "provide" /\ self' = f /\ arg' = t
  /\ IF ~IsTrafaret(t)
     THEN res' = Exc("TypeError", <<>>) /\ UNCHANGED heap
     ELSE /\ heap' = [heap EXCEPT ![f].trafaret = t]
          /\ res' = Ok(PyNone, <<>>)
  /\ UNCHANGED calls

\* Forward.provide
Provide(f, t) ==
  /\ op' = "provide" /\ self' = f /\ arg' = t
  /\ IF heap[f].trafaret # NoRef
     THEN res' = Exc("RuntimeError", <<>>) /\ UNCHANGED heap
     ELSE IF ~IsTrafaret(t)
     THEN res' = Exc("TypeError", <<>>) /\ UNCHANGED heap
     ELSE /\ heap' = [heap EXCEPT ![f].trafaret = t]
          /\ res' = Ok(PyNone, <<>>)
  /\ UNCHANGED calls

\* Forward.__lshift__: self.provide(trafaret)
ForwardLshift(f, t) ==
  /\ op' = "lshift" /\ self' = f /\ arg' = t
  /\ IF heap[f].trafaret # NoRef
     THEN res' = Exc("RuntimeError", <<>>) /\ UNCHANGED heap
     ELSE IF ~IsTrafaret(t)
     THEN res' = Exc("TypeError", <<>>) /\ UNCHANGED heap
     ELSE /\ heap' = [heap EXCEPT ![f].trafaret = t]
          /\ res' = Ok(PyNone, <<>>)
  /\ UNCHANGED calls

Forwards == {"fwd", "fwd2"}

ForwardArgs == {"or", "list", "dict", "fwd", "fwd2", NotATrafaret}

\* the node of the doctest: Dict(a=String, b=List(fwd))
NodeDict ==
  DictT(<<Key("a", PyNone, FALSE, PyNone, "str"), Key("b", PyNone, FALSE, PyNone, "list")>>)

Node(children) == PyDict([k \in {"a", "b"} |-> IF k = "a" THEN PyStr("x") ELSE PyList(children)])

ForwardInputs ==
  {PyInt(1), PyStr("x"),
   PyList(<<>>), PyList(<<PyInt(1)>>), PyList(<<PyStr("x")>>),
   PyList(<<PyList(<<PyInt(1)>>)>>), PyList(<<PyList(<<>>), PyList(<<PyInt(1)>>)>>),
   Node(<<>>), Node(<<Node(<<>>)>>), Node(<<PyInt(1)>>)}

InitForward ==
  /\ \E ts \in ListsOf({"int", "list", "fwd"}, 1) :
        heap = [BaseHeap EXCEPT !["or"] = OrT(ts),
                                !["list"] = ListT("fwd", 0, PyNone),
                                !["dict"] = NodeDict]
  /\ NoCall

NextForward ==
  \/ \E f \in Forwards, t \in ForwardArgs : Provide(f, t)
  \/ \E f \in Forwards, t \in ForwardArgs : ForwardLshift(f, t)
  \/ \E t \in {"int", "fwd"} : OrLshift("or", t)
  \/ \E v \in ForwardInputs : Check("fwd", v)

SpecForward == InitForward /\ [][NextForward]_vars

\* the nodes a check of node n hands the same value to: what a Forward is bound
\* to, the children of an Or
SameValueCalls(h, n) ==
  CASE h[n].kind = "Forward" -> {h[n].trafaret} \ {NoRef}
    [] h[n].kind = "Or" -> Range(h[n].trafarets)
    [] OTHER -> {}

\* the nodes a check of node n hands a part of the value to: the child of a
\* List, the children of the keys of a Dict
PartCalls(h, n) ==
  CASE h[n].kind = "List" -> {h[n].trafaret}
    [] h[n].kind = "Dict" -> {h[n].keys[i].trafaret : i \in DOMAIN h[n].keys}
    [] OTHER -> {}

\* the nodes reached from the set S in at most k steps of the relation R
RECURSIVE Reach(_, _, _, _)
Reach(R(_, _), h, S, k) ==
  IF k = 0 THEN S ELSE Reach(R, h, S \cup UNION {R(h, n) : n \in S}, k - 1)

AllCalls(h, n) == SameValueCalls(h, n) \cup PartCalls(h, n)

\* the schema rooted at node n
SchemaOf(h, n) == Reach(AllCalls, h, {n}, Cardinality(NodeIds))

\* some node of the schema rooted at `root` reaches itself through Forward
\* bindings and Or alternatives alone
SameValueCycle(h, root) ==
  \E n \in SchemaOf(h, root) :
    n \in Reach(SameValueCalls, h, SameValueCalls(h, n), Cardinality(NodeIds))

\* the values inside v, v included
RECURSIVE Parts(_)
Parts(v) ==
  IF IsList(v) THEN {v} \cup UNION {Parts(v.list[i]) : i \in DOMAIN v.list}
  ELSE IF IsDict(v) THEN {v} \cup UNION {Parts(v.dict[k]) : k \in DOMAIN v.dict}
  ELSE {v}

\* call i of the log is on the call stack when call j is made
Encloses(log, i, j) ==
  /\ i < j
  /\ \A k \in (i + 1)..j : log[k].lvl > log[i].lvl

\* every check of a Forward made inside a check of the same Forward is on a
\* strictly smaller part of that check's value
Descends(log) ==
  \A i, j \in DOMAIN log :
    (/\ heap[log[i].t].kind = "Forward"
     /\ log[j].t = log[i].t
     /\ Encloses(log, i, j))
    => log[j].v \in Parts(log[i].v) \ {log[i].v}

ForwardChecked == op = "check" /\ self = "fwd" /\ heap["fwd"].trafaret # NoRef

\* the check came back: it did not run into the interpreter's recursion limit
Terminated == ~(res.st = "raise" /\ res.exc = "RecursionError")

BindingKept ==
  \A f \in Forwards : heap[f].trafaret # NoRef => heap'[f].trafaret = heap[f].trafaret

\* what a bind attempt does: on an unbound Forward, given a validator, it
\* binds it; on a bound Forward it raises RuntimeError; and whenever it raises
\* it leaves every binding as it was
BindOnce ==
  (op' \in {"provide", "lshift"} /\ self' \in Forwards) =>
    /\ (heap[self'].trafaret = NoRef /\ IsTrafaret(arg')) =>
         res'.st = "ok" /\ heap'[self'].trafaret = arg'
    /\ heap[self'].trafaret # NoRef =>
         res'.st = "raise" /\ res'.exc = "RuntimeError"
    /\ res'.st = "raise" => heap' = heap

\* C10: a Forward is bound at most once: the first bind attempt that gives a
\* validator binds it, the binding never changes afterwards, every later bind
\* attempt raises a construction error, and a bind attempt that fails leaves
\* the binding unchanged.
C10_ForwardBoundOnce == [][BindingKept /\ BindOnce]_vars

\* a second bind attempt, with another validator, has just failed and the
\* Forward is still bound to the first
C10_Witness ==
  /\ op \in {"provide", "lshift"} /\ self = "fwd"
  /\ res.st = "raise" /\ res.exc = "RuntimeError"
  /\ arg = "dict" /\ heap["fwd"].trafaret = "list"

(***************************************************************************)
(* Converters: Int() and Or(Int, String), converters appended to either    *)
(* with append and `>>`, then checked.                                     *)
(***************************************************************************)
\* the converters a node holds: none without a `converters` attribute
OwnConverters(n) == IF n.converters.set THEN n.converters.list ELSE <<>>

ConvNodes == {"int", "or"}

Converters == {"double", "str", "ignore"}

\* the converters the nodes of the schema hold together
ConvCount(h) == Len(OwnConverters(h["int"])) + Len(OwnConverters(h["or"]))

\* Trafaret.append
TrafaretAppend(t, c) ==
  /\ ConvCount(heap) < MaxConv
  /\ op' = "append" /\ self' = t /\ arg' = c
  /\ heap' = [heap EXCEPT ![t].converters =
                 IF @.set THEN [set |-> TRUE, list |-> ListAppend(@.list, c)]
                 ELSE [set |-> TRUE, list |-> <<c>>]]
  /\ res' = Ok(PyRef(t), <<>>)
  /\ UNCHANGED calls

\* Trafaret.__rshift__: self.append(other), return self
TrafaretRshift(t, c) ==
  /\ ConvCount(heap) < MaxConv
  /\ op' = "rshift" /\ self' = t /\ arg' = c
  /\ heap' = [heap EXCEPT ![t].converters =
                 IF @.set THEN [set |-> TRUE, list |-> ListAppend(@.list, c)]
                 ELSE [set |-> TRUE, list |-> <<c>>]]
  /\ res' = Ok(PyRef(t), <<>>)
  /\ UNCHANGED calls

ConvInputs == Atoms \cup {PyNone}

InitConvert ==
  /\ heap = [BaseHeap EXCEPT !["or"] = OrT(<<"int", "str">>)]
  /\ NoCall

NextConvert ==
  \/ \E t \in ConvNodes, c \in Converters : TrafaretAppend(t, c)
  \/ \E t \in ConvNodes, c \in Converters : TrafaretRshift(t, c)
  \/ \E t \in ConvNodes, v \in ConvInputs : Check(t, v)

SpecConvert == InitConvert /\ [][NextConvert]_vars

\* the calls of the converters of node id made by the check that was called
OwnRuns(log, id) == SelectSeq(log, LAMBDA e : "c" \in DOMAIN e /\ e.t = id /\ e.lvl = 1)

\* the output of stage k of the pipeline cs fed with v
RECURSIVE Pipe(_, _, _)
Pipe(cs, k, v) == IF k = 0 THEN v ELSE ApplyConverter(cs[k], Pipe(cs, k - 1, v))

\* what the checked node says of the value before any of its converters
Unconverted ==
  CheckT([heap EXCEPT ![self].converters = NoConverters], self, arg, MaxDepth)

\* a check runs the converters of its node once each, in list order, each on
\* the previous stage's output, when it succeeds, and none when it fails
ConvertersRunInOrder ==
  (op = "check" /\ self \in ConvNodes) =>
    LET cs == OwnConverters(heap[self])
        runs == OwnRuns(res.log, self)
    IN /\ Unconverted.st = "error" =>
            res.st = "error" /\ res.err = Unconverted.err /\ runs = <<>>
       /\ res.st = "error" => runs = <<>>
       /\ res.st = "ok" =>
            /\ Unconverted.st = "ok"
            /\ Len(runs) = Len(cs)
            /\ \A i \in 1..Len(cs) :
                 runs[i].c = cs[i] /\ runs[i].v = Pipe(cs, i - 1, Unconverted.val)
            /\ res.val = Pipe(cs, Len(cs), Unconverted.val)

\* append and `>>` put the converter last in the list of their node and
\* leave the other nodes alone
AppendKeepsOrder ==
  (op' \in {"append", "rshift"}) =>
    /\ OwnConverters(heap'[self']) = Append(OwnConverters(heap[self']), arg')
    /\ \A t \in NodeIds \ {self'} : heap'[t] = heap[t]

\* C11: a validator whose converters c1..cn were appended in that order runs,
\* in a successful check, each of them exactly once, in that order, c1 on the
\* validated value and each next one on the output of the one before, and
\* returns the output of cn; a failing check runs none of them.
C11_ConvertersInRegistrationOrder ==
  []ConvertersRunInOrder /\ [][AppendKeepsOrder]_vars

\* Int() >> double >> str >> double checked on "7" gives "1414"
C11_Witness ==
  /\ op = "check" /\ self = "int" /\ arg = PyStr("7")
  /\ OwnConverters(heap["int"]) = <<"double", "str", "double">>
  /\ res.st = "ok" /\ res.val = PyStr("1414")

(***************************************************************************)
(* Mapping: Mapping(key, value) over Int and String, checked on dicts      *)
(* whose keys are strings and ints.                                        *)
(***************************************************************************)
MapKeys == {PyStr("7"), PyInt(7), PyStr("x")}

MapValues == {PyInt(1), PyStr("x"), PyStr("7")}

\* the sequences of k items with distinct keys
RECURSIVE ItemsOfLen(_)
ItemsOfLen(k) ==
  IF k = 0 THEN {<<>>}
  ELSE UNION {{Append(q, Item(key, v)) :
                 key \in MapKeys \ {q[i].k : i \in DOMAIN q}, v \in MapValues} :
              q \in ItemsOfLen(k - 1)}

MapInputs == {PyItems(q) : q \in UNION {ItemsOfLen(k) : k \in 0..MaxItems}} \cup {PyInt(1)}

MapHeap(k, v) ==
  [id \in NodeIds \cup {"map"} |-> IF id = "map" THEN MappingT(k, v) ELSE BaseHeap[id]]

InitMapping ==
  /\ \E k \in {"int", "str"}, v \in {"int", "str"} : heap = MapHeap(k, v)
  /\ NoCall

NextMapping == \E v \in MapInputs : Check("map", v)

SpecMapping == InitMapping /\ [][NextMapping]_vars

TheMapping == heap["map"]
MappingChecked == op = "check" /\ self = "map" /\ IsItems(arg)

\* what the key validator says of the key of entry i, the value validator of
\* its value
KeyOf(i) == CheckT(heap, TheMapping.key, arg.items[i].k, MaxDepth - 1)
ValueOf(i) == CheckT(heap, TheMapping.value, arg.items[i].v, MaxDepth - 1)

FailingEntries == {i \in DOMAIN arg.items : KeyOf(i).st = "error" \/ ValueOf(i).st = "error"}

\* the key and then the value of every entry are checked, in iteration order
BothPartsChecked ==
  LET made == DirectCalls(res.log)
  IN /\ Len(made) = 2 * Len(arg.items)
     /\ \A i \in DOMAIN arg.items :
          /\ made[2 * i - 1].t = TheMapping.key /\ made[2 * i - 1].v = arg.items[i].k
          /\ made[2 * i].t = TheMapping.value /\ made[2 * i].v = arg.items[i].v

\* the branch raised when some entry fails
FailingEntriesReported ==
  FailingEntries # {} =>
    /\ res.st = "error" /\ IsBranch(res.err)
    /\ DOMAIN res.err.branch = {arg.items[i].k : i \in FailingEntries}
    /\ \A i \in FailingEntries :
         LET e == res.err.branch[arg.items[i].k]
         IN /\ IsBranch(e)
            /\ "key" \in DOMAIN e.branch <=> KeyOf(i).st = "error"
            /\ "value" \in DOMAIN e.branch <=> ValueOf(i).st = "error"
            /\ DOMAIN e.branch \subseteq {"key", "value"}
            /\ KeyOf(i).st = "error" => e.branch["key"] = KeyOf(i).err
            /\ ValueOf(i).st = "error" => e.branch["value"] = ValueOf(i).err

\* the output holds the validated key of entry i with its validated value
InOutput(i) ==
  \E j \in DOMAIN res.val.items : res.val.items[j] = Item(KeyOf(i).val, ValueOf(i).val)

\* the keys of the output are the validated keys, each once
OutputKeys ==
  /\ {res.val.items[j].k : j \in DOMAIN res.val.items} =
       {KeyOf(i).val : i \in DOMAIN arg.items}
  /\ \A j1, j2 \in DOMAIN res.val.items :
       res.val.items[j1].k = res.val.items[j2].k => j1 = j2

\* C12 as claimed: Mapping.check checks the key and the value of every entry;
\* when entries fail it raises a branch keyed by the input keys of exactly the
\* failing entries, each holding a branch with 'key' and 'value' for exactly
\* the parts that failed; when none fails the output maps the validated key of
\* every entry to the validated value of that entry.
C12_MappingChecksEveryEntry ==
  MappingChecked =>
    /\ BothPartsChecked
    /\ FailingEntriesReported
    /\ FailingEntries = {} =>
         /\ res.st = "ok" /\ IsItems(res.val) /\ OutputKeys
         /\ \A i \in DOMAIN arg.items : InOutput(i)

\* C12 as amended: the same, the output mapping each validated key to the
\* validated value of the last entry, in iteration order, whose key validates
\* to it.
C12_MappingChecksEveryEntryLastKeyWins ==
  MappingChecked =>
    /\ BothPartsChecked
    /\ FailingEntriesReported
    /\ FailingEntries = {} =>
         /\ res.st = "ok" /\ IsItems(res.val) /\ OutputKeys
         /\ \A i \in DOMAIN arg.items :
              (\A j \in DOMAIN arg.items : j > i => KeyOf(j).val # KeyOf(i).val) => InOutput(i)

\* Mapping(String, Int) on three entries: the first fails by its key and by
\* its value, the second by its value alone, the third passes
C12_Witness ==
  /\ MappingChecked /\ Len(arg.items) = 3
  /\ FailingEntries = {1, 2}
  /\ KeyOf(1).st = "error" /\ ValueOf(1).st = "error"
  /\ KeyOf(2).st = "ok" /\ ValueOf(2).st = "error"
  /\ res.st = "error"
  /\ DOMAIN res.err.branch[arg.items[1].k].branch = {"key", "value"}
  /\ DOMAIN res.err.branch[arg.items[2].k].branch = {"value"}

(***************************************************************************)
(* Concurrent checks: two callers check dicts against one Dict, whose      *)
(* _check_val runs one step at a time: the copy, one step for each         *)
(* declared key, the extras loop with the return.  A caller may check the  *)
(* dict it holds a second time.  Dict.make_optional rebuilds the schema    *)
(* between calls: the schema is built before it is checked against, so it  *)
(* runs only while no check is under way.                                  *)
(***************************************************************************)
\* a copy that is the dict itself
NoCopy(value) == [content |-> value.dict, alias |-> TRUE]

\* copy.copy(value): a new dict with the entries of value
CopyCopy(value) == [content |-> value.dict, alias |-> FALSE]

\* a pop that also takes the entry out of the caller's dict
CallerSeesData(c, data) == PyDict(data)

\* the caller's dict once Key.pop has popped from `data`
CallerSees(c, data) == IF c.alias THEN PyDict(data) ELSE c.value

\* Key.make_optional
KeyMakeOptional(key) == [key EXCEPT !.optional = TRUE, !.default = PyNone]

\* Dict.make_optional
DictMakeOptional(o, names) ==
  /\ \A p \in Callers : calls[p].pc # "keys"
  /\ op' = "make_optional" /\ self' = o /\ arg' = names
  /\ heap' = [heap EXCEPT ![o].keys =
                 [i \in DOMAIN @ |->
                    IF @[i].name \in Range(names) \/ "*" \in Range(names)
                    THEN KeyMakeOptional(@[i]) ELSE @[i]]]
  /\ res' = Ok(PyNone, <<>>)
  /\ calls' = [p \in Callers |-> [calls[p] EXCEPT !.last = NoOutcome, !.first = NoOutcome]]

\* the call record when check has returned or raised `out`
Returned(c, out) == [c EXCEPT !.pc = "returned", !.last = out]

\* Trafaret.check on the Dict, Dict._check_val up to its loops: the dict v of
\* caller p is handed to check
Enter(p, v, first) ==
  IF IsDict(v)
  THEN /\ calls' = [calls EXCEPT ![p] =
                      [pc |-> "keys", value |-> v, passed |-> v,
                       data |-> CopyCopy(v).content, alias |-> CopyCopy(v).alias,
                       collect |-> EmptyMap, errors |-> EmptyMap, i |-> 1,
                       last |-> first, first |-> first]]
       /\ UNCHANGED <<heap, op, self, arg, res>>
  ELSE /\ calls' = [calls EXCEPT ![p] =
                      Returned([IdleCall EXCEPT !.value = v, !.passed = v, !.first = first],
                               Fail(Leaf("value is not dict"), <<>>))]
       /\ op' = "check" /\ self' = "dict" /\ arg' = v
       /\ res' = Fail(Leaf("value is not dict"), <<>>)
       /\ UNCHANGED heap

\* caller p checks a new value
Call(p, v) ==
  /\ calls[p].pc \in {"idle", "returned"}
  /\ Enter(p, v, NoOutcome)

\* caller p checks the value it holds once more
Recheck(p) ==
  /\ calls[p].pc = "returned"
  /\ calls[p].last # NoOutcome /\ calls[p].first = NoOutcome
  /\ Enter(p, calls[p].value, calls[p].last)

\* a step for a declared key that uses up the default of the key
PopKeyForgetsDefault(p) ==
  LET c == calls[p]
      keys == heap["dict"].keys
  IN /\ c.pc = "keys" /\ c.i <= Len(keys)
     /\ LET r == KeysLoop(heap, <<keys[c.i]>>, 1, c.data, c.collect, c.errors, MaxDepth, <<>>)
        IN /\ calls' = [calls EXCEPT ![p] =
                          [c EXCEPT !.data = r.data, !.collect = r.collect,
                                    !.errors = r.errors, !.i = c.i + 1,
                                    !.value = CallerSees(c, r.data)]]
           /\ heap' = [heap EXCEPT !["dict"].keys[c.i].default = PyNone]
           /\ UNCHANGED <<op, self, arg, res>>

\* Dict._check_val: one turn of the loop over self.keys, for the call of
\* caller p
PopKey(p) ==
  LET c == calls[p]
      keys == heap["dict"].keys
  IN /\ c.pc = "keys" /\ c.i <= Len(keys)
     /\ LET r == KeysLoop(heap, <<keys[c.i]>>, 1, c.data, c.collect, c.errors, MaxDepth, <<>>)
        IN IF r.st = "ok"
           THEN /\ calls' = [calls EXCEPT ![p] =
                               [c EXCEPT !.data = r.data, !.collect = r.collect,
                                         !.errors = r.errors, !.i = c.i + 1,
                                         !.value = CallerSees(c, r.data)]]
                /\ UNCHANGED <<heap, op, self, arg, res>>
           ELSE /\ calls' = [calls EXCEPT ![p] = Returned(c, Exc(r.exc, <<>>))]
                /\ op' = "check" /\ self' = "dict" /\ arg' = c.passed
                /\ res' = Exc(r.exc, <<>>)
                /\ UNCHANGED heap

\* Dict._check_val: the loop over the entries left in data, the raise or the
\* return, and Trafaret._convert, for the call of caller p
Finish(p) ==
  LET c == calls[p]
      n == heap["dict"]
  IN /\ c.pc = "keys" /\ c.i > Len(n.keys)
     /\ LET q == ExtrasPass(n, c.data, c.collect, c.errors)
            cv == Convert(n, "dict", PyDict(q.collect), MaxDepth)
            out == IF DOMAIN q.errors # {} THEN Fail(Branch(q.errors), <<>>)
                   ELSE IF cv.st = "ok" THEN Ok(cv.val, <<>>) ELSE Exc(cv.exc, <<>>)
        IN /\ calls' = [calls EXCEPT ![p] = Returned(c, out)]
           /\ op' = "check" /\ self' = "dict" /\ arg' = c.passed
           /\ res' = out
           /\ UNCHANGED heap

\* Dict({Key("a", default="7") >> "c": Or(Int >> double, fwd), "b": String})
\* with fwd bound to String, as it is or after allow_extra("c")
CallsHeap(extras) ==
  [BaseHeap EXCEPT
     !["int"].converters = [set |-> TRUE, list |-> <<"double">>],
     !["or"] = OrT(<<"int", "fwd">>),
     !["fwd"].trafaret = "str",
     !["dict"] = [DictT(<<Key("a", PyStr("7"), FALSE, PyStr("c"), "or"),
                          Key("b", PyNone, FALSE, PyNone, "str")>>)
                    EXCEPT !.extras = extras]]

CallInputs ==
  {PyDict(EmptyMap),
   PyDict([k \in {"a", "b"} |-> IF k = "a" THEN PyInt(1) ELSE PyStr("x")]),
   PyDict([k \in {"a", "b"} |-> IF k = "a" THEN PyList(<<>>) ELSE PyInt(1)]),
   PyDict([k \in {"b", "c"} |-> IF k = "b" THEN PyStr("x") ELSE PyInt(1)]),
   PyInt(1)}

InitCalls ==
  /\ \E extras \in {<<>>, <<"c">>} : heap = CallsHeap(extras)
  /\ NoCall

NextCalls ==
  \/ \E p \in Callers, v \in CallInputs : Call(p, v)
  \/ \E p \in Callers : Recheck(p)
  \/ \E p \in Callers : PopKey(p)
  \/ \E p \in Callers : Finish(p)
  \/ \E names \in {<<"a">>, <<"b">>, <<"*">>} : DictMakeOptional("dict", names)

SpecCalls == InitCalls /\ [][NextCalls]_vars

\* this step is the return of a check of caller p
Returns(p) == calls'[p] # calls[p] /\ calls'[p].pc = "returned" /\ op' = "check"

\* an outcome without the log of the calls made
NoLog(r) == [r EXCEPT !.log = <<>>]

\* C13: a check of the same input as a check before it, with no construction
\* operation on the schema between the two, has the outcome of the check
\* before it: the same value or the same error tree.
C13_RecheckSameOutcome ==
  [][\A p \in Callers :
       (Returns(p) /\ calls'[p].first # NoOutcome) => calls'[p].last = calls'[p].first]_vars

\* a dict without "a" was checked twice; both checks put the default of "a",
\* converted, under "c"
C13_Witness ==
  /\ calls["p"].pc = "returned"
  /\ calls["p"].first # NoOutcome /\ calls["p"].last = calls["p"].first
  /\ IsDict(calls["p"].passed) /\ "a" \notin DOMAIN calls["p"].passed.dict
  /\ calls["p"].last.st = "ok"
  /\ "c" \in DOMAIN calls["p"].last.val.dict /\ calls["p"].last.val.dict["c"] = PyInt(14)

\* the schema changes only in a make_optional made while no check is under way
SchemaFrame ==
  heap' # heap => (op' = "make_optional" /\ \A p \in Callers : calls[p].pc # "keys")

\* a check that returns has the outcome of a check of the same value run
\* alone on the schema
RunAlone(p) ==
  Returns(p) => calls'[p].last = NoLog(CheckT(heap, "dict", calls'[p].passed, MaxDepth))

\* C16: no step of a check, successful or failing, changes the schema (the
\* children of an Or, the keys of a Dict with their defaults and optional
\* flags, its extra-key policy, the converter lists, the binding of a
\* Forward), and every check that runs interleaved with another has the
\* outcome it has when run alone.
C16_ChecksLeaveSchemaAlone == [][SchemaFrame /\ \A p \in Callers : RunAlone(p)]_vars

\* caller p got an error back from a check that ran while the check of caller
\* q, of another value, was past its first key
C16_Witness ==
  /\ calls["p"].pc = "returned" /\ calls["p"].last.st = "error"
  /\ calls["q"].pc = "keys" /\ calls["q"].i = 2
  /\ calls["q"].passed # calls["p"].passed
  /\ op = "check" /\ arg = calls["p"].passed

\* C17: during a Dict check and after it, successful or failing, the dict the
\* caller passed holds the keys and the values it held when it was passed:
\* the declared keys are popped from a copy.
C17_InputLeftUnchanged ==
  \A p \in Callers :
    calls[p].pc \in {"keys", "returned"} => calls[p].value = calls[p].passed

\* a check has returned that popped "a" and "b" from its copy, and the
\* caller's dict still holds both
C17_Witness ==
  /\ calls["p"].pc = "returned" /\ calls["p"].last.st = "ok"
  /\ IsDict(calls["p"].passed)
  /\ DOMAIN calls["p"].passed.dict = {"a", "b"}
  /\ DOMAIN calls["p"].data = {}
  /\ calls["p"].value = calls["p"].passed

(***************************************************************************)
(* guard: the function fn(a, b, c) with no, one or two declared defaults,  *)
(* guarded with a=Int, b=Int, c=Int, and called with positional and named  *)
(* arguments.  fn returns (a, b, c).                                       *)
(***************************************************************************)
\* a function with its argspec.args and argspec.defaults, and the trafaret of
\* its guard
FunctionT(args, defaults, t) ==
  [kind |-> "Function", args |-> args, defaults |-> defaults, trafaret |-> t]

\* a raised GuardError
GuardFail(e, log) == [st |-> "guard_error", err |-> e, log |-> log]

\* fn(**converted) for fn returning the tuple of its parameters: a call
\* without a parameter, or with a name that is none, raises TypeError
CallFn(f, converted, log) ==
  IF DOMAIN converted.dict # Range(f.args) THEN Exc("TypeError", log)
  ELSE Ok(PyList([i \in DOMAIN f.args |-> converted.dict[f.args[i]]]),
          Append(log, [t |-> "fn", v |-> converted, lvl |-> 0]))

\* dict(itertools.chain(zip(fnargs, checkargs), kwargs.items()))
ZipArgs(fnargs, checkargs, kwargs) ==
  LET n == IF Len(fnargs) < Len(checkargs) THEN Len(fnargs) ELSE Len(checkargs)
  IN [name \in {fnargs[i] : i \in 1..n} \cup DOMAIN kwargs |->
        IF name \in DOMAIN kwargs THEN kwargs[name]
        ELSE checkargs[CHOOSE i \in 1..n : fnargs[i] = name]]

\* zip(reversed(fnargs), argspec.defaults or ())
ZipDefaults(fnargs, defaults) ==
  LET n == IF Len(fnargs) < Len(defaults) THEN Len(fnargs) ELSE Len(defaults)
  IN [j \in 1..n |-> [name |-> fnargs[Len(fnargs) + 1 - j], default |-> defaults[j]]]

\* the loop that gives the names missing from call_args their defaults
WithDefaults(call_args, pairs) ==
  [name \in DOMAIN call_args \cup {pairs[j].name : j \in DOMAIN pairs} |->
     IF name \in DOMAIN call_args THEN call_args[name]
     ELSE pairs[CHOOSE j \in DOMAIN pairs : pairs[j].name = name].default]

\* guard.wrapper.decor: a call of the guarded function
GuardedCall(args, kwargs) ==
  LET f == heap["fn"]
      method == f.args[1] \in {"self", "cls"}
      fnargs == IF method THEN Tail(f.args) ELSE f.args
      checkargs == IF method THEN Tail(args) ELSE args
      call_args == WithDefaults(ZipArgs(fnargs, checkargs, kwargs),
                                ZipDefaults(fnargs, f.defaults))
      r == CheckT(heap, f.trafaret, PyDict(call_args), MaxDepth)
  IN /\ op' = "call" /\ self' = "fn" /\ arg' = [args |-> args, kwargs |-> kwargs]
     /\ res' = CASE r.st = "ok" -> CallFn(f, r.val, r.log)
                  [] r.st = "error" -> GuardFail(r.err, r.log)
                  [] OTHER -> r
     /\ UNCHANGED <<heap, calls>>

GuardValues == {PyInt(5), PyStr("x")}

\* the named arguments of a call
GuardKwargs == UNION {[D -> {PyInt(6), PyStr("x")}] : D \in SUBSET {"b", "c"}}

GuardHeap(defaults) ==
  [id \in NodeIds \cup {"fn"} |->
     CASE id = "fn" -> FunctionT(<<"a", "b", "c">>, defaults, "dict")
       [] id = "dict" -> DictT(<<Key("a", PyNone, FALSE, PyNone, "int"),
                                 Key("b", PyNone, FALSE, PyNone, "int"),
                                 Key("c", PyNone, FALSE, PyNone, "int")>>)
       [] OTHER -> BaseHeap[id]]

InitGuard ==
  /\ \E defaults \in {<<>>, <<PyInt(2)>>, <<PyInt(1), PyInt(2)>>} : heap = GuardHeap(defaults)
  /\ NoCall

NextGuard == \E args \in ListsOf(GuardValues, MaxArgs), kwargs \in GuardKwargs : GuardedCall(args, kwargs)

SpecGuard == InitGuard /\ [][NextGuard]_vars

\* the parameters of fn and their declared defaults: the last parameters
\* have them, in declaration order
Params == heap["fn"].args
Defaults == heap["fn"].defaults
HasDefault(i) == i > Len(Params) - Len(Defaults)
DeclaredDefault(i) == Defaults[i - (Len(Params) - Len(Defaults))]

\* parameter i is given in the call, by name or, if not, by position
Given(i) == Params[i] \in DOMAIN arg.kwargs \/ i <= Len(arg.args)
GivenValue(i) == IF Params[i] \in DOMAIN arg.kwargs THEN arg.kwargs[Params[i]] ELSE arg.args[i]

\* the mapping the call handed to the schema
Handed == res.log[1].v.dict

\* C14: the mapping a call of a guarded function hands to the schema holds
\* every argument of the call under the name of its parameter and, for every
\* parameter with a declared default that the call does not give, that
\* parameter's own default, however many parameters have defaults; when the
\* schema rejects the mapping the call raises GuardError with the schema's
\* error tree and the function is not called.
C14_GuardMergesDefaults ==
  op = "call" =>
    /\ \A i \in DOMAIN Params :
         /\ Given(i) => (Params[i] \in DOMAIN Handed /\ Handed[Params[i]] = GivenValue(i))
         /\ (~Given(i) /\ HasDefault(i)) =>
              (Params[i] \in DOMAIN Handed /\ Handed[Params[i]] = DeclaredDefault(i))
         /\ (~Given(i) /\ ~HasDefault(i)) => Params[i] \notin DOMAIN Handed
    /\ LET r == CheckT(heap, "dict", PyDict(Handed), MaxDepth)
       IN r.st = "error" =>
            /\ res.st = "guard_error" /\ res.err = r.err
            /\ \A k \in DOMAIN res.log : res.log[k].t # "fn"

====
